---- MODULE Spec2Model ----
(***************************************************************************)
(* A model of xx-bloom: the double-hashing index sequence (hashing.rs),     *)
(* the standard BloomFilter (bloom.rs) and the CountingBloomFilter          *)
(* (counting.rs).                                                           *)
(*                                                                          *)
(* u64 values are little-endian sequences of eight base-256 limbs, so that  *)
(* wrapping_add / wrapping_mul / % are computed at their real 64-bit width  *)
(* without leaving the range of the model checker's integers.               *)
(***************************************************************************)
EXTENDS Integers, Sequences, FiniteSets, TLC

VARIABLES filters, inserted, cbf, hist, last, panic, stepped

vars == <<filters, inserted, cbf, hist, last, panic, stepped>>

(***************************************************************************)
(* Bounds of the model.                                                     *)
(***************************************************************************)
\* largest num_bits a BloomFilter is constructed with
MaxBits == 3
\* largest num_hashes a filter is constructed with
MaxHashes == 3
\* number of distinct items handed to the filters
NumKeys == 2
\* largest num_entries a CountingBloomFilter is constructed with
MaxEntries == 2
\* largest bits_per_entry a CountingBloomFilter is constructed with
MaxBitsPerEntry == 2
\* history bound: insert / remove calls per key that the history counts
MaxCalls == 4
\* how often a program asks an exhausted HashIter for more
MaxExhausted == 2
\* largest expected_num_items a filter is constructed for
MaxItems == 2

Keys == 1..NumKeys

(***************************************************************************)
(* u64 arithmetic.                                                          *)
(***************************************************************************)
Limbs == 1..8

\* the u64 whose value is n, for 0 <= n < 2^31
U64(n) == [j \in Limbs |-> IF j = 1 THEN n % 256
                           ELSE IF j = 2 THEN (n \div 256) % 256
                           ELSE IF j = 3 THEN (n \div 65536) % 256
                           ELSE IF j = 4 THEN (n \div 16777216) % 256
                           ELSE 0]

U64_MAX == [j \in Limbs |-> 255]

\* 2^63
U64_HIGH == [j \in Limbs |-> IF j = 8 THEN 128 ELSE 0]

RECURSIVE AddCarry(_, _, _)
\* carry into limb j of a + b
AddCarry(a, b, j) ==
    IF j = 1 THEN 0 ELSE (a[j - 1] + b[j - 1] + AddCarry(a, b, j - 1)) \div 256

\* u64::wrapping_add: the carry out of limb 8 is dropped
wrapping_add(a, b) == [j \in Limbs |-> (a[j] + b[j] + AddCarry(a, b, j)) % 256]

RECURSIVE ColumnSum(_, _, _, _)
\* sum of a[x] * b[y] over x + y = j + 1, x <= upto
ColumnSum(a, b, j, upto) ==
    IF upto = 0 THEN 0 ELSE a[upto] * b[j + 1 - upto] + ColumnSum(a, b, j, upto - 1)

RECURSIVE MulCarry(_, _, _)
\* carry into column j of a * b
MulCarry(a, b, j) ==
    IF j = 1 THEN 0
    ELSE (ColumnSum(a, b, j - 1, j - 1) + MulCarry(a, b, j - 1)) \div 256

\* u64::wrapping_mul: the columns past limb 8 are dropped
wrapping_mul(a, b) ==
    [j \in Limbs |-> (ColumnSum(a, b, j, j) + MulCarry(a, b, j)) % 256]

\* a % m for a u64 a and 1 <= m < 2^22: Horner's rule from limb 8 down
U64Rem(a, m) ==
    (((((((((((((((a[8] % m) * 256 + a[7]) % m) * 256 + a[6]) % m) * 256 + a[5]) % m)
        * 256 + a[4]) % m) * 256 + a[3]) % m) * 256 + a[2]) % m) * 256 + a[1]) % m)

(***************************************************************************)
(* BloomFingerprint and the hash capability.                                *)
(***************************************************************************)
BloomFingerprint_new(h1, h2) == [h1 |-> h1, h2 |-> h2]

\* the digests the hash produces in this model
FpTable == << BloomFingerprint_new(U64(1), U64(0)),
              BloomFingerprint_new(U64_MAX, U64(2)),
              BloomFingerprint_new(U64_HIGH, U64(3)),
              BloomFingerprint_new(U64_MAX, U64_MAX) >>

Fingerprints == {FpTable[n] : n \in DOMAIN FpTable}

\* the values of the thread-local SECRET cell before the first filter is built
Secrets == 0..(Len(FpTable) - 1)

\* RandomXxh3State::new: bumps the thread-local secret and returns a copy
RandomXxh3State_new(cell) == cell + 1

\* BloomBuildHasher::hash_one_128: a digest fixed by the secret and the bytes
hash_one_128(secret, k) == FpTable[((secret + k) % Len(FpTable)) + 1]

(***************************************************************************)
(* HashIter (hashing.rs).                                                   *)
(***************************************************************************)
\* a bug: the two halves of the digest change places
HashIter_from_fingerprint_swapped(fp, count) ==
    [fp |-> [h1 |-> fp.h2, h2 |-> fp.h1], i |-> 0, count |-> count]

HashIter_from_fingerprint(fp, count) == [fp |-> fp, i |-> 0, count |-> count]

HashIter_from_slice(item, count, build_hasher) ==
    [fp |-> hash_one_128(build_hasher, item), i |-> 0, count |-> count]

\* HashIter::from: the streaming digest of the item's bytes
HashIter_from(item, count, build_hasher) ==
    [fp |-> hash_one_128(build_hasher, item), i |-> 0, count |-> count]

\* a bug: the sum saturates at u64::MAX where the carry out of limb 8 is not 0
double_hash_saturating(fp, i) ==
    LET b  == U64(i)
        p1 == IF (fp.h1[8] + b[8] + AddCarry(fp.h1, b, 8)) \div 256 = 0
              THEN wrapping_add(fp.h1, b)
              ELSE U64_MAX
    IN  wrapping_mul(p1, fp.h2)

\* the `_` arm of next's match: (h1 + i) * h2, both wrapping
double_hash(fp, i) ==
    LET p1 == wrapping_add(fp.h1, U64(i))
    IN  wrapping_mul(p1, fp.h2)

\* double_hash, evaluated once per fingerprint and position
DoubleHashTable ==
    [fp \in Fingerprints |-> [i \in 2..(MaxHashes + 1) |-> double_hash(fp, i)]]

\* a bug: the iterator stops one value late
next_one_more(self) ==
    IF self.i = self.count + 1
    THEN [some |-> FALSE, item |-> U64(0), iter |-> self]
    ELSE LET r == IF self.i = 0 THEN self.fp.h1
                  ELSE IF self.i = 1 THEN self.fp.h2
                  ELSE DoubleHashTable[self.fp][self.i]
         IN  [some |-> TRUE, item |-> r, iter |-> [self EXCEPT !.i = self.i + 1]]

\* Iterator::next: [some, item, iter]; some = FALSE is None
next(self) ==
    IF self.i = self.count
    THEN [some |-> FALSE, item |-> U64(0), iter |-> self]
    ELSE LET r == IF self.i = 0 THEN self.fp.h1
                  ELSE IF self.i = 1 THEN self.fp.h2
                  ELSE DoubleHashTable[self.fp][self.i]
         IN  [some |-> TRUE, item |-> r, iter |-> [self EXCEPT !.i = self.i + 1]]

\* every u64 that next can yield in this model
HashValues ==
    UNION { {fp.h1, fp.h2} \cup {DoubleHashTable[fp][i] : i \in 2..(MaxHashes + 1)}
            : fp \in Fingerprints }

\* the lengths a bit store or a counter store can have, but for 0
Moduli == 1..(IF MaxBits > MaxEntries THEN MaxBits ELSE MaxEntries)

\* U64Rem, evaluated once per hash value and modulus
RemTable == [h \in HashValues |-> [m \in Moduli |-> U64Rem(h, m)]]

\* h % m as the filters compute it, for m >= 1
rem(h, m) == RemTable[h][m]

(***************************************************************************)
(* Panics.  panic = NoPanic while the program runs; a panic ends it.        *)
(***************************************************************************)
NoPanic == ""
RemByZero == "attempt to calculate the remainder with a divisor of zero"
HashModFailedInsert == "Hash mod failed in insert"
HashModFailed == "Hash mod failed"
LenMismatch == "assertion failed: self.len() == other.len()"
CounterIsZero == "Contains returned true but a counter is 0"

(***************************************************************************)
(* BitVec (crate bit_vec), as BloomFilter uses it: a sequence of BOOLEAN,   *)
(* bit idx at position idx + 1.                                             *)
(***************************************************************************)
BitVec_from_elem(nbits, bit) == [j \in 1..nbits |-> bit]

\* Option<bool>: None when idx is out of range
BitVec_get(bits, idx) ==
    IF idx < Len(bits) THEN [some |-> TRUE, val |-> bits[idx + 1]]
    ELSE [some |-> FALSE, val |-> FALSE]

\* a bug: the bit is flipped, whatever x is
BitVec_set_flips(bits, idx, x) == [bits EXCEPT ![idx + 1] = ~@]

BitVec_set(bits, idx, x) == [bits EXCEPT ![idx + 1] = x]

\* a bug: the store is emptied the way Vec::clear empties a Vec
BitVec_clear_truncates(bits) == <<>>

\* BitVec::clear: every bit false, the length kept
BitVec_clear(bits) == [j \in DOMAIN bits |-> FALSE]

\* a bug: self is overwritten with other
BitVec_or_overwrites(self, other) ==
    IF Len(self) # Len(other)
    THEN [bits |-> self, ret |-> FALSE, panic |-> LenMismatch]
    ELSE [bits |-> other, ret |-> other # self, panic |-> NoPanic]

\* BitVec::or: panics when the lengths differ, else ORs in place and
\* returns whether self changed
BitVec_or(self, other) ==
    IF Len(self) # Len(other)
    THEN [bits |-> self, ret |-> FALSE, panic |-> LenMismatch]
    ELSE LET r == [j \in DOMAIN self |-> self[j] \/ other[j]]
         IN  [bits |-> r, ret |-> r # self, panic |-> NoPanic]

\* a bug: self is left as it is
BitVec_and_keeps_self(self, other) ==
    IF Len(self) # Len(other)
    THEN [bits |-> self, ret |-> FALSE, panic |-> LenMismatch]
    ELSE [bits |-> self, ret |-> FALSE, panic |-> NoPanic]

\* BitVec::and: panics when the lengths differ, else ANDs in place and
\* returns whether self changed
BitVec_and(self, other) ==
    IF Len(self) # Len(other)
    THEN [bits |-> self, ret |-> FALSE, panic |-> LenMismatch]
    ELSE LET r == [j \in DOMAIN self |-> self[j] /\ other[j]]
         IN  [bits |-> r, ret |-> r # self, panic |-> NoPanic]

(***************************************************************************)
(* BloomFilter (bloom.rs).                                                  *)
(***************************************************************************)
BloomFilter_with_size(num_bits, num_hashes, hash_builder) ==
    [bits |-> BitVec_from_elem(num_bits, FALSE),
     num_hashes |-> num_hashes,
     hash_builder |-> hash_builder]

\* a bug: the new filter gets a hasher of its own
combinable_with_fresh_hasher(other) ==
    [bits |-> BitVec_from_elem(Len(other.bits), FALSE),
     num_hashes |-> other.num_hashes,
     hash_builder |-> RandomXxh3State_new(other.hash_builder)]

combinable_with(other) ==
    [bits |-> BitVec_from_elem(Len(other.bits), FALSE),
     num_hashes |-> other.num_hashes,
     hash_builder |-> other.hash_builder]

RECURSIVE BloomFilter_insert_loop(_, _, _)
\* the for loop of insert_hash_iter: [bits, contained, panic]
BloomFilter_insert_loop(bits, h_iter, contained) ==
    LET n == next(h_iter) IN
    IF ~n.some THEN [bits |-> bits, contained |-> contained, panic |-> NoPanic]
    ELSE IF Len(bits) = 0
         THEN [bits |-> bits, contained |-> contained, panic |-> RemByZero]
    ELSE LET idx == rem(n.item, Len(bits))
             b   == BitVec_get(bits, idx)
         IN  IF ~b.some
             THEN [bits |-> bits, contained |-> contained,
                   panic |-> HashModFailedInsert]
             ELSE BloomFilter_insert_loop(BitVec_set(bits, idx, TRUE), n.iter,
                                         contained /\ b.val)

\* a bug: the loop starts at the second hash
BloomFilter_insert_hash_iter_skips_first(self, h_iter) ==
    LET r == BloomFilter_insert_loop(self.bits, next(h_iter).iter, TRUE)
    IN  [bits |-> r.bits, ret |-> ~r.contained, panic |-> r.panic]

\* a bug: returns `contained`, not `!contained`
BloomFilter_insert_hash_iter_returns_contained(self, h_iter) ==
    LET r == BloomFilter_insert_loop(self.bits, h_iter, TRUE)
    IN  [bits |-> r.bits, ret |-> r.contained, panic |-> r.panic]

\* [bits, ret, panic]
BloomFilter_insert_hash_iter(self, h_iter) ==
    LET r == BloomFilter_insert_loop(self.bits, h_iter, TRUE)
    IN  [bits |-> r.bits, ret |-> ~r.contained, panic |-> r.panic]

RECURSIVE BloomFilter_contains_hash_iter(_, _)
\* [ret, panic]
BloomFilter_contains_hash_iter(self, h_iter) ==
    LET n == next(h_iter) IN
    IF ~n.some THEN [ret |-> TRUE, panic |-> NoPanic]
    ELSE IF Len(self.bits) = 0 THEN [ret |-> FALSE, panic |-> RemByZero]
    ELSE LET idx == rem(n.item, Len(self.bits))
             b   == BitVec_get(self.bits, idx)
         IN  IF ~b.some THEN [ret |-> FALSE, panic |-> HashModFailed]
             ELSE IF ~b.val THEN [ret |-> FALSE, panic |-> NoPanic]
             ELSE BloomFilter_contains_hash_iter(self, n.iter)

\* ASMS::insert for BloomFilter
BloomFilter_insert(self, item) ==
    BloomFilter_insert_hash_iter(self,
        HashIter_from(item, self.num_hashes, self.hash_builder))

\* ASMS::contains for BloomFilter
BloomFilter_contains(self, item) ==
    BloomFilter_contains_hash_iter(self,
        HashIter_from(item, self.num_hashes, self.hash_builder))

\* ASMS::clear for BloomFilter
BloomFilter_clear(self) == [self EXCEPT !.bits = BitVec_clear(self.bits)]

\* a bug: a union over the common prefix of the two stores, without the
\* length check
union_truncating(self, other) ==
    LET r == [j \in DOMAIN self.bits |->
                 self.bits[j] \/ (j <= Len(other.bits) /\ other.bits[j])]
    IN  [bits |-> r, ret |-> r # self.bits, panic |-> NoPanic]

\* a bug: union reports a change whenever other has a bit set
union_reports_other(self, other) ==
    LET r == BitVec_or(self.bits, other.bits)
    IN  [r EXCEPT !.ret = (r.panic = NoPanic /\ \E j \in DOMAIN other.bits : other.bits[j])]

\* Unionable::union for BloomFilter
union(self, other) == BitVec_or(self.bits, other.bits)

\* Intersectable::intersect for BloomFilter
intersect(self, other) == BitVec_and(self.bits, other.bits)

RECURSIVE Indices(_, _)
\* the slots h_iter visits in a store of `modulus` slots
Indices(h_iter, modulus) ==
    LET n == next(h_iter) IN
    IF ~n.some THEN {}
    ELSE {rem(n.item, modulus)} \cup Indices(n.iter, modulus)

\* the bit positions of item in a BloomFilter with at least one bit
BloomFilter_indices(self, item) ==
    Indices(HashIter_from(item, self.num_hashes, self.hash_builder), Len(self.bits))

(***************************************************************************)
(* u32 results.  u32::MAX does not fit the model checker's integers: it is  *)
(* written -1 (the same 32 bits), and compared in unsigned order.           *)
(***************************************************************************)
U32_MAX == -1

\* a < b on u32
u32_lt(a, b) == IF a = U32_MAX THEN FALSE ELSE IF b = U32_MAX THEN TRUE ELSE a < b

(***************************************************************************)
(* The sizing math of bloom.rs, in fixed point: f32 values are kept in      *)
(* millionths, and the false positive rates are those of FalsePosRates.     *)
(***************************************************************************)
\* core::f32::consts::LN_2, in millionths
LN_2 == 693147

\* one, in millionths
Unit == 1000000

\* the rates a filter is constructed for
FalsePosRates == {"1/2"}

\* (1.0 / false_pos_rate).ln() / ln22, in millionths: 1 / LN_2 for 1/2
LnInvRateOverLn22 == [rate \in FalsePosRates |-> 1442695]

\* f32::round of a / b for a >= 0, b > 0: to the nearest, halves upwards
round(a, b) == (2 * a + b) \div (2 * b)

\* max and min on u32
u32_max(a, b) == IF u32_lt(a, b) THEN b ELSE a
u32_min(a, b) == IF u32_lt(a, b) THEN a ELSE b

\* (num_bits as f32 / num_items as f32 * LN_2).round() as u32: the cast takes
\* NaN (0 / 0) to 0 and infinity (n / 0) to u32::MAX
rounded_hashes(num_bits, num_items) ==
    IF num_items = 0 THEN (IF num_bits = 0 THEN 0 ELSE U32_MAX)
    ELSE round(num_bits * LN_2, num_items * Unit)

\* a bug: the result is not clamped
optimal_num_hashes_unclamped(num_bits, num_items) ==
    rounded_hashes(num_bits, num_items)

optimal_num_hashes(num_bits, num_items) ==
    u32_min(u32_max(rounded_hashes(num_bits, num_items), 2), 200)

needed_bits(false_pos_rate, num_items) ==
    round(num_items * LnInvRateOverLn22[false_pos_rate], Unit)

\* BloomFilter::with_rate, with_rate_and_hasher
BloomFilter_with_rate(rate, expected_num_items, hash_builder) ==
    LET bits == needed_bits(rate, expected_num_items)
    IN  BloomFilter_with_size(bits, optimal_num_hashes(bits, expected_num_items),
                              hash_builder)

(***************************************************************************)
(* ValueVec (valuevec.rs): num_entries counters of bits_per_entry bits.     *)
(***************************************************************************)
RECURSIVE Pow2(_)
Pow2(e) == IF e = 0 THEN 1 ELSE 2 * Pow2(e - 1)

ValueVec_new(bits_per_entry, num_entries) ==
    [bits_per_entry |-> bits_per_entry, vals |-> [j \in 1..num_entries |-> 0]]

ValueVec_max_value(self) == Pow2(self.bits_per_entry) - 1

ValueVec_get(self, idx) == self.vals[idx + 1]

\* a slot holds bits_per_entry bits of the value
ValueVec_set(self, idx, x) ==
    [self EXCEPT !.vals[idx + 1] = x % Pow2(self.bits_per_entry)]

ValueVec_clear(self) == [self EXCEPT !.vals = [j \in DOMAIN self.vals |-> 0]]

(***************************************************************************)
(* CountingBloomFilter (counting.rs).                                       *)
(***************************************************************************)
CountingBloomFilter_with_size(num_entries, bits_per_entry, num_hashes, hash_builder) ==
    [counters |-> ValueVec_new(bits_per_entry, num_entries),
     num_entries |-> num_entries,
     num_hashes |-> num_hashes,
     hash_builder |-> hash_builder]

RECURSIVE contains_hash_iter(_, _)
\* [ret, panic]
contains_hash_iter(self, h_iter) ==
    LET n == next(h_iter) IN
    IF ~n.some THEN [ret |-> TRUE, panic |-> NoPanic]
    ELSE IF self.num_entries = 0 THEN [ret |-> FALSE, panic |-> RemByZero]
    ELSE LET idx == rem(n.item, self.num_entries)
             cur == ValueVec_get(self.counters, idx)
         IN  IF cur = 0 THEN [ret |-> FALSE, panic |-> NoPanic]
             ELSE contains_hash_iter(self, n.iter)

RECURSIVE remove_loop(_, _, _)
\* the for loop of remove_hash_iter: [self, min, panic]
remove_loop(self, h_iter, min) ==
    LET n == next(h_iter) IN
    IF ~n.some THEN [self |-> self, min |-> min, panic |-> NoPanic]
    ELSE IF self.num_entries = 0 THEN [self |-> self, min |-> min, panic |-> RemByZero]
    ELSE LET idx  == rem(n.item, self.num_entries)
             cur  == ValueVec_get(self.counters, idx)
             min2 == IF u32_lt(cur, min) THEN cur ELSE min
         IN  IF cur > 0
             THEN remove_loop(
                      [self EXCEPT !.counters = ValueVec_set(self.counters, idx, cur - 1)],
                      n.iter, min2)
             ELSE [self |-> self, min |-> min2, panic |-> CounterIsZero]

\* a bug: the decrement pass without the contains check before it
remove_hash_iter_unchecked(self, h_iter) == remove_loop(self, h_iter, U32_MAX)

\* [self, min, panic]
remove_hash_iter(self, h_iter) ==
    LET c == contains_hash_iter(self, h_iter) IN
    IF c.panic # NoPanic THEN [self |-> self, min |-> 0, panic |-> c.panic]
    ELSE IF ~c.ret THEN [self |-> self, min |-> 0, panic |-> NoPanic]
    ELSE remove_loop(self, h_iter, U32_MAX)

RECURSIVE estimate_count_loop(_, _, _)
\* [min, panic]
estimate_count_loop(self, h_iter, min) ==
    LET n == next(h_iter) IN
    IF ~n.some THEN [min |-> min, panic |-> NoPanic]
    ELSE IF self.num_entries = 0 THEN [min |-> min, panic |-> RemByZero]
    ELSE LET idx == rem(n.item, self.num_entries)
             cur == ValueVec_get(self.counters, idx)
         IN  estimate_count_loop(self, n.iter, IF u32_lt(cur, min) THEN cur ELSE min)

estimate_count_hash_iter(self, h_iter) == estimate_count_loop(self, h_iter, U32_MAX)

\* the saturating increment of insert_get_count_hash_iter
insert_get_count_increment(self, idx, cur) ==
    IF cur < ValueVec_max_value(self.counters)
    THEN [self EXCEPT !.counters = ValueVec_set(self.counters, idx, cur + 1)]
    ELSE self

RECURSIVE insert_get_count_loop(_, _, _)
\* the for loop of insert_get_count_hash_iter: [self, min, panic]
insert_get_count_loop(self, h_iter, min) ==
    LET n == next(h_iter) IN
    IF ~n.some THEN [self |-> self, min |-> min, panic |-> NoPanic]
    ELSE IF self.num_entries = 0 THEN [self |-> self, min |-> min, panic |-> RemByZero]
    ELSE LET idx  == rem(n.item, self.num_entries)
             cur  == ValueVec_get(self.counters, idx)
             min2 == IF u32_lt(cur, min) THEN cur ELSE min
         IN  insert_get_count_loop(insert_get_count_increment(self, idx, cur),
                                   n.iter, min2)

\* a bug: the minimum is taken after the increments
insert_get_count_hash_iter_min_after(self, h_iter) ==
    LET r == insert_get_count_loop(self, h_iter, U32_MAX)
    IN  [r EXCEPT !.min = estimate_count_hash_iter(r.self, h_iter).min]

insert_get_count_hash_iter(self, h_iter) == insert_get_count_loop(self, h_iter, U32_MAX)

\* a bug: the increment without the check against max_value
insert_increment_unchecked(self, idx, cur) ==
    [self EXCEPT !.counters = ValueVec_set(self.counters, idx, cur + 1)]

\* the saturating increment of insert_hash_iter
insert_increment(self, idx, cur) ==
    IF cur < ValueVec_max_value(self.counters)
    THEN [self EXCEPT !.counters = ValueVec_set(self.counters, idx, cur + 1)]
    ELSE self

RECURSIVE insert_loop(_, _, _)
\* the for loop of insert_hash_iter: [self, min, panic]
insert_loop(self, h_iter, min) ==
    LET n == next(h_iter) IN
    IF ~n.some THEN [self |-> self, min |-> min, panic |-> NoPanic]
    ELSE IF self.num_entries = 0 THEN [self |-> self, min |-> min, panic |-> RemByZero]
    ELSE LET idx  == rem(n.item, self.num_entries)
             cur  == ValueVec_get(self.counters, idx)
             min2 == IF u32_lt(cur, min) THEN cur ELSE min
         IN  insert_loop(insert_increment(self, idx, cur), n.iter, min2)

\* a bug: true when the minimum was 0
insert_result_when_zero(min) == min = 0

\* the value insert_hash_iter returns: min > 0
insert_result(min) == u32_lt(0, min)

\* [self, ret, panic]
insert_hash_iter(self, h_iter) ==
    LET r == insert_loop(self, h_iter, U32_MAX)
    IN  [self |-> r.self, ret |-> insert_result(r.min), panic |-> r.panic]

\* ASMS::insert for CountingBloomFilter
insert(self, item) ==
    insert_hash_iter(self, HashIter_from(item, self.num_hashes, self.hash_builder))

insert_get_count(self, item) ==
    insert_get_count_hash_iter(self, HashIter_from(item, self.num_hashes, self.hash_builder))

\* ASMS::contains for CountingBloomFilter
contains(self, item) ==
    contains_hash_iter(self, HashIter_from(item, self.num_hashes, self.hash_builder))

estimate_count(self, item) ==
    estimate_count_hash_iter(self, HashIter_from(item, self.num_hashes, self.hash_builder))

\* a bug: remove leaves out the last hash of the item
remove_skips_last(self, item) ==
    remove_hash_iter(self,
        HashIter_from(item,
                      IF self.num_hashes > 0 THEN self.num_hashes - 1 ELSE 0,
                      self.hash_builder))

remove(self, item) ==
    remove_hash_iter(self, HashIter_from(item, self.num_hashes, self.hash_builder))

\* the fast paths for byte slices and for fingerprints
insert_slice(self, item) ==
    insert_hash_iter(self, HashIter_from_slice(item, self.num_hashes, self.hash_builder))

insert_fingerprint(self, fingerprint) ==
    insert_hash_iter(self, HashIter_from_fingerprint(fingerprint, self.num_hashes))

insert_get_count_slice(self, item) ==
    insert_get_count_hash_iter(self,
        HashIter_from_slice(item, self.num_hashes, self.hash_builder))

insert_get_count_fingerprint(self, fp) ==
    insert_get_count_hash_iter(self, HashIter_from_fingerprint(fp, self.num_hashes))

contains_slice(self, item) ==
    contains_hash_iter(self, HashIter_from_slice(item, self.num_hashes, self.hash_builder))

contains_fingerprint(self, fingerprint) ==
    contains_hash_iter(self, HashIter_from_fingerprint(fingerprint, self.num_hashes))

estimate_count_slice(self, item) ==
    estimate_count_hash_iter(self,
        HashIter_from_slice(item, self.num_hashes, self.hash_builder))

estimate_count_fingerprint(self, fp) ==
    estimate_count_hash_iter(self, HashIter_from_fingerprint(fp, self.num_hashes))

remove_slice(self, item) ==
    remove_hash_iter(self, HashIter_from_slice(item, self.num_hashes, self.hash_builder))

remove_fingerprint(self, fingerprint) ==
    remove_hash_iter(self, HashIter_from_fingerprint(fingerprint, self.num_hashes))

\* ASMS::clear for CountingBloomFilter
clear(self) == [self EXCEPT !.counters = ValueVec_clear(self.counters)]

(***************************************************************************)
(* State.                                                                   *)
(*   filters   the two BloomFilters of a program, b1 and b2                 *)
(*   inserted  history: the keys inserted into b1 since its bits were      *)
(*             last cleared or intersected                                  *)
(*   cbf       the CountingBloomFilter                                      *)
(*   hist      history of cbf since construction or the last clear          *)
(*   last      the last call that changed the program (a call on &mut self, *)
(*             or one that panicked): its name, receiver, arguments,        *)
(*             result, and the receiver's store before the call             *)
(*   panic     the panic message once the program has panicked              *)
(***************************************************************************)
Names == {"b1", "b2"}

NoCall == [op |-> "new", self |-> "", key |-> 0, other |-> "",
           ret |-> FALSE, count |-> 0, pre |-> <<>>]

\* the key whose calls the history counts
TrackedKey == 1

\* ins, rem: insert (or insert_get_count) and remove calls for TrackedKey;
\* otherIns, otherRem: whether another key was inserted, removed;
\* insAfterRem: whether TrackedKey was inserted after a remove of it
NoHist == [ins |-> 0, rem |-> 0, otherIns |-> FALSE, otherRem |-> FALSE,
           insAfterRem |-> FALSE]

\* the HashIter of a program that steps none itself: built is FALSE
NoIter == [built |-> FALSE, iter |-> HashIter_from_fingerprint(FpTable[1], 0),
           modulus |-> 1, yielded |-> <<>>, nones |-> 0]

InitNoHashIter == stepped = NoIter

\* a program that builds no CountingBloomFilter worth speaking of
InitNoCounting ==
    /\ cbf = CountingBloomFilter_with_size(0, 0, 0, 0)
    /\ hist = NoHist

\* b1 = with_size(..); b2 = combinable_with(&b1) or a second with_size(..)
InitBloom ==
    \E num_bits \in 0..MaxBits, num_hashes \in 0..MaxHashes, cell \in Secrets :
        LET s1 == RandomXxh3State_new(cell)
            s2 == RandomXxh3State_new(s1)
            first == BloomFilter_with_size(num_bits, num_hashes, s1)
        IN  \/ filters = [b1 |-> first, b2 |-> combinable_with(first)]
            \/ \E num_bits2 \in 0..MaxBits :
                   filters = [b1 |-> first,
                              b2 |-> BloomFilter_with_size(num_bits2, num_hashes, s2)]

Init ==
    /\ InitBloom
    /\ inserted = {}
    /\ InitNoCounting
    /\ InitNoHashIter
    /\ last = NoCall
    /\ panic = NoPanic

\* filter.insert(&key)
Insert(self, key) ==
    LET r == BloomFilter_insert(filters[self], key) IN
    /\ panic = NoPanic
    /\ filters' = [filters EXCEPT ![self].bits = r.bits]
    /\ inserted' = IF self = "b1" THEN inserted \cup {key} ELSE inserted
    /\ last' = [op |-> "insert", self |-> self, key |-> key, other |-> "",
                ret |-> r.ret, count |-> 0, pre |-> filters[self].bits]
    /\ panic' = r.panic
    /\ UNCHANGED <<stepped, cbf, hist>>

\* filter.contains(&key): &self, so all it can do to the program is panic
Contains(self, key) ==
    LET r == BloomFilter_contains(filters[self], key) IN
    /\ panic = NoPanic
    /\ last' = IF r.panic = NoPanic THEN last
               ELSE [op |-> "contains", self |-> self, key |-> key, other |-> "",
                     ret |-> r.ret, count |-> 0, pre |-> filters[self].bits]
    /\ panic' = r.panic
    /\ UNCHANGED <<stepped, filters, inserted, cbf, hist>>

\* filter.clear()
Clear(self) ==
    /\ panic = NoPanic
    /\ filters' = [filters EXCEPT ![self] = BloomFilter_clear(@)]
    /\ inserted' = IF self = "b1" THEN {} ELSE inserted
    /\ last' = [op |-> "clear", self |-> self, key |-> 0, other |-> "",
                ret |-> FALSE, count |-> 0, pre |-> filters[self].bits]
    /\ UNCHANGED <<stepped, cbf, hist, panic>>

\* filter.union(&other)
Union(self, other) ==
    LET r == union(filters[self], filters[other]) IN
    /\ panic = NoPanic
    /\ filters' = [filters EXCEPT ![self].bits = r.bits]
    /\ last' = [op |-> "union", self |-> self, key |-> 0, other |-> other,
                ret |-> r.ret, count |-> 0, pre |-> filters[self].bits]
    /\ panic' = r.panic
    /\ UNCHANGED <<stepped, inserted, cbf, hist>>

\* filter.intersect(&other)
Intersect(self, other) ==
    LET r == intersect(filters[self], filters[other]) IN
    /\ panic = NoPanic
    /\ filters' = [filters EXCEPT ![self].bits = r.bits]
    /\ inserted' = IF self = "b1" THEN {} ELSE inserted
    /\ last' = [op |-> "intersect", self |-> self, key |-> 0, other |-> other,
                ret |-> r.ret, count |-> 0, pre |-> filters[self].bits]
    /\ panic' = r.panic
    /\ UNCHANGED <<stepped, cbf, hist>>

\* a program that fills and clears b1 and b2, queries b1 and combines b2
\* into b1
Next ==
    \/ \E self \in Names, key \in Keys : Insert(self, key)
    \/ \E key \in Keys : Contains("b1", key)
    \/ \E self \in Names : Clear(self)
    \/ Union("b1", "b2")
    \/ Intersect("b1", "b2")

Spec == Init /\ [][Next]_vars

(***************************************************************************)
(* A program that builds b2 with combinable_with(&b1), b1 being new or      *)
(* holding one key already, and then fills, clears and combines the two in  *)
(* both directions.                                                         *)
(***************************************************************************)
InitCombinable ==
    /\ \E num_bits \in 0..MaxBits, num_hashes \in 0..MaxHashes, cell \in Secrets :
           LET new == BloomFilter_with_size(num_bits, num_hashes,
                                            RandomXxh3State_new(cell))
           IN  \/ /\ filters = [b1 |-> new, b2 |-> combinable_with(new)]
                   /\ inserted = {}
               \/ \E key \in Keys :
                      LET r == BloomFilter_insert(new, key)
                          first == [new EXCEPT !.bits = r.bits]
                      IN  /\ r.panic = NoPanic
                          /\ filters = [b1 |-> first, b2 |-> combinable_with(first)]
                          /\ inserted = {key}
    /\ InitNoCounting
    /\ InitNoHashIter
    /\ last = NoCall
    /\ panic = NoPanic

NextCombinable ==
    \/ \E self \in Names, key \in Keys : Insert(self, key)
    \/ \E self \in Names : Clear(self)
    \/ Union("b1", "b2")
    \/ Union("b2", "b1")
    \/ Intersect("b1", "b2")
    \/ Intersect("b2", "b1")

SpecCombinable == InitCombinable /\ [][NextCombinable]_vars

(***************************************************************************)
(* A program that builds b1 with with_size or with with_rate and b2 with    *)
(* combinable_with(&b1), and then fills, clears and combines the two.       *)
(***************************************************************************)
InitConstructors ==
    /\ \E cell \in Secrets :
           \E new \in {BloomFilter_with_size(num_bits, num_hashes,
                                            RandomXxh3State_new(cell)) :
                           num_bits \in 0..MaxBits, num_hashes \in 0..MaxHashes}
                      \cup
                      {BloomFilter_with_rate(rate, expected_num_items,
                                            RandomXxh3State_new(cell)) :
                           rate \in FalsePosRates, expected_num_items \in 0..MaxItems} :
               filters = [b1 |-> new, b2 |-> combinable_with(new)]
    /\ inserted = {}
    /\ InitNoCounting
    /\ InitNoHashIter
    /\ last = NoCall
    /\ panic = NoPanic

SpecConstructors == InitConstructors /\ [][NextCombinable]_vars

(***************************************************************************)
(* A program that either builds BloomFilters and calls insert and contains  *)
(* on them, or builds a HashIter from a fingerprint and steps it as the     *)
(* filters' loops do, past its end: each value it yields is reduced modulo  *)
(* the length of a store.                                                   *)
(***************************************************************************)
InitHashIter ==
    /\ filters = [b1 |-> BloomFilter_with_size(0, 0, 0),
                  b2 |-> BloomFilter_with_size(0, 0, 0)]
    /\ inserted = {}
    /\ cbf = CountingBloomFilter_with_size(0, 0, 0, 0)
    /\ hist = NoHist
    /\ last = NoCall
    /\ panic = NoPanic
    /\ \E fp \in Fingerprints, count \in 0..MaxHashes, modulus \in Moduli :
           stepped = [built |-> TRUE, iter |-> HashIter_from_fingerprint(fp, count),
                      modulus |-> modulus, yielded |-> <<>>, nones |-> 0]

InitHashing == Init \/ InitHashIter

\* whether the program built the HashIter
IterBuilt == stepped.built

\* stepped.iter.next(), and h % modulus of a value it yields
HashIterNext ==
    LET n == next(stepped.iter) IN
    /\ stepped.nones < MaxExhausted
    /\ stepped' = [stepped EXCEPT
                      !.iter = n.iter,
                      !.yielded = IF n.some
                                  THEN Append(@, [item |-> n.item,
                                                  idx |-> rem(n.item, stepped.modulus)])
                                  ELSE @,
                      !.nones = IF n.some THEN @ ELSE @ + 1]
    /\ UNCHANGED <<filters, inserted, cbf, hist, last, panic>>

NextHashing ==
    \/ ~IterBuilt /\ \E self \in Names, key \in Keys : Insert(self, key)
    \/ ~IterBuilt /\ \E key \in Keys : Contains("b1", key)
    \/ IterBuilt /\ HashIterNext

SpecHashing == InitHashing /\ [][NextHashing]_vars

(***************************************************************************)
(* The CountingBloomFilter program.                                         *)
(***************************************************************************)
\* a program that builds no BloomFilter worth speaking of
InitNoBloom ==
    /\ filters = [b1 |-> BloomFilter_with_size(0, 0, 0),
                  b2 |-> BloomFilter_with_size(0, 0, 0)]
    /\ inserted = {}

\* cbf = CountingBloomFilter::with_size(..)
InitCounting ==
    /\ InitNoBloom
    /\ InitNoHashIter
    /\ \E num_entries \in 0..MaxEntries, bits_per_entry \in 1..MaxBitsPerEntry,
          num_hashes \in 0..MaxHashes, cell \in Secrets :
           cbf = CountingBloomFilter_with_size(num_entries, bits_per_entry, num_hashes,
                                               RandomXxh3State_new(cell))
    /\ hist = NoHist
    /\ last = NoCall
    /\ panic = NoPanic

CallOf(op, key, ret, count) ==
    [op |-> op, self |-> "cbf", key |-> key, other |-> "",
     ret |-> ret, count |-> count, pre |-> cbf.counters.vals]

\* cbf.insert(&key), but for the history
InsertStep(key) ==
    LET r == insert(cbf, key) IN
    /\ panic = NoPanic
    /\ cbf' = r.self
    /\ last' = CallOf("insert", key, r.ret, 0)
    /\ panic' = r.panic
    /\ UNCHANGED <<stepped, filters, inserted>>

\* cbf.insert_get_count(&key), but for the history
InsertGetCountStep(key) ==
    LET r == insert_get_count(cbf, key) IN
    /\ panic = NoPanic
    /\ cbf' = r.self
    /\ last' = CallOf("insert_get_count", key, FALSE, r.min)
    /\ panic' = r.panic
    /\ UNCHANGED <<stepped, filters, inserted>>

\* cbf.remove(&key), but for the history
RemoveStep(key) ==
    LET r == remove(cbf, key) IN
    /\ panic = NoPanic
    /\ cbf' = r.self
    /\ last' = CallOf("remove", key, FALSE, r.min)
    /\ panic' = r.panic
    /\ UNCHANGED <<stepped, filters, inserted>>

\* cbf.clear(), but for the history
ClearStep ==
    /\ panic = NoPanic
    /\ cbf' = clear(cbf)
    /\ last' = CallOf("clear", 0, FALSE, 0)
    /\ UNCHANGED <<stepped, filters, inserted, panic>>

\* cbf.contains(&key): &self, so all it can do to the program is panic
CbfContains(key) ==
    LET r == contains(cbf, key) IN
    /\ panic = NoPanic
    /\ last' = IF r.panic = NoPanic THEN last ELSE CallOf("contains", key, r.ret, 0)
    /\ panic' = r.panic
    /\ UNCHANGED <<stepped, filters, inserted, cbf, hist>>

\* cbf.estimate_count(&key): &self, so all it can do to the program is panic
CbfEstimateCount(key) ==
    LET r == estimate_count(cbf, key) IN
    /\ panic = NoPanic
    /\ last' = IF r.panic = NoPanic THEN last
               ELSE CallOf("estimate_count", key, FALSE, r.min)
    /\ panic' = r.panic
    /\ UNCHANGED <<stepped, filters, inserted, cbf, hist>>

CbfInsert(key) == InsertStep(key) /\ UNCHANGED hist

CbfInsertGetCount(key) == InsertGetCountStep(key) /\ UNCHANGED hist

CbfRemove(key) == RemoveStep(key) /\ UNCHANGED hist

CbfClear == ClearStep /\ UNCHANGED hist

NextCounting ==
    \/ \E key \in Keys : CbfInsert(key)
    \/ \E key \in Keys : CbfInsertGetCount(key)
    \/ \E key \in Keys : CbfRemove(key)
    \/ \E key \in Keys : CbfContains(key)
    \/ \E key \in Keys : CbfEstimateCount(key)
    \/ CbfClear

SpecCounting == InitCounting /\ [][NextCounting]_vars

(***************************************************************************)
(* The same program with its history kept, MaxCalls calls per kind deep.    *)
(***************************************************************************)
Inserted(key) ==
    IF key = TrackedKey
    THEN [hist EXCEPT !.ins = @ + 1, !.insAfterRem = @ \/ hist.rem > 0]
    ELSE [hist EXCEPT !.otherIns = TRUE]

Removed(key) ==
    IF key = TrackedKey THEN [hist EXCEPT !.rem = @ + 1]
    ELSE [hist EXCEPT !.otherRem = TRUE]

HistInsert(key) ==
    /\ key = TrackedKey => hist.ins < MaxCalls
    /\ InsertStep(key)
    /\ hist' = Inserted(key)

HistInsertGetCount(key) ==
    /\ key = TrackedKey => hist.ins < MaxCalls
    /\ InsertGetCountStep(key)
    /\ hist' = Inserted(key)

HistRemove(key) ==
    /\ key = TrackedKey => hist.rem < MaxCalls
    /\ RemoveStep(key)
    /\ hist' = Removed(key)

HistClear == ClearStep /\ hist' = NoHist

NextCountingHist ==
    \/ \E key \in Keys : HistInsert(key)
    \/ \E key \in Keys : HistInsertGetCount(key)
    \/ \E key \in Keys : HistRemove(key)
    \/ HistClear

SpecCountingHist == InitCounting /\ [][NextCountingHist]_vars

(***************************************************************************)
(* A program that builds one filter, a BloomFilter or a                     *)
(* CountingBloomFilter, and fills and clears it.                            *)
(***************************************************************************)
InitClear ==
    \/ InitCounting
    \/ /\ \E num_bits \in 0..MaxBits, num_hashes \in 0..MaxHashes, cell \in Secrets :
              LET new == BloomFilter_with_size(num_bits, num_hashes,
                                               RandomXxh3State_new(cell))
              IN  filters = [b1 |-> new, b2 |-> combinable_with(new)]
        /\ inserted = {}
        /\ InitNoCounting
        /\ InitNoHashIter
        /\ last = NoCall
        /\ panic = NoPanic

\* whether the program built the BloomFilter (no RandomXxh3State is 0)
BuiltBloom == filters["b1"].hash_builder # 0

NextClear ==
    \/ BuiltBloom /\ \E key \in Keys : Insert("b1", key)
    \/ BuiltBloom /\ Clear("b1")
    \/ ~BuiltBloom /\ \E key \in Keys : CbfInsert(key)
    \/ ~BuiltBloom /\ \E key \in Keys : CbfRemove(key)
    \/ ~BuiltBloom /\ CbfClear

SpecClear == InitClear /\ [][NextClear]_vars

(***************************************************************************)
(* A program that hashes its byte-slice keys once, with the filter's        *)
(* hasher, and fills and empties the filter through the fingerprint fast    *)
(* paths.                                                                   *)
(***************************************************************************)
\* cbf.insert_fingerprint(hash_builder.hash_one_128(key))
CbfInsertFingerprint(key) ==
    LET r == insert_fingerprint(cbf, hash_one_128(cbf.hash_builder, key)) IN
    /\ panic = NoPanic
    /\ cbf' = r.self
    /\ last' = CallOf("insert_fingerprint", key, r.ret, 0)
    /\ panic' = r.panic
    /\ UNCHANGED <<stepped, filters, inserted, hist>>

\* cbf.remove_fingerprint(hash_builder.hash_one_128(key))
CbfRemoveFingerprint(key) ==
    LET r == remove_fingerprint(cbf, hash_one_128(cbf.hash_builder, key)) IN
    /\ panic = NoPanic
    /\ cbf' = r.self
    /\ last' = CallOf("remove_fingerprint", key, FALSE, r.min)
    /\ panic' = r.panic
    /\ UNCHANGED <<stepped, filters, inserted, hist>>

NextFingerprint ==
    \/ \E key \in Keys : CbfInsertFingerprint(key)
    \/ \E key \in Keys : CbfRemoveFingerprint(key)

SpecFingerprint == InitCounting /\ [][NextFingerprint]_vars

(***************************************************************************)
(* A program that only inserts into the CountingBloomFilter and asks for    *)
(* estimates, with its history kept.                                        *)
(***************************************************************************)
NextInserts ==
    \/ \E key \in Keys : HistInsert(key)
    \/ \E key \in Keys : HistInsertGetCount(key)
    \/ \E key \in Keys : CbfEstimateCount(key)

SpecInserts == InitCounting /\ [][NextInserts]_vars

(***************************************************************************)
(* Properties of the standard BloomFilter, checked under Spec.              *)
(***************************************************************************)
\* the receiver of the last BloomFilter call, as it was before the call
BloomBefore == [filters[last.self] EXCEPT !.bits = last.pre]

\* C1: no false negatives.  While the program has not panicked, every key
\* inserted into b1 since b1 was last cleared or intersected is reported by
\* contains, whatever inserts (of any keys, into either filter), contains
\* and unions came after it.
C1_NoFalseNegatives ==
    panic = NoPanic =>
        \A key \in inserted :
            BloomFilter_contains(filters["b1"], key) = [ret |-> TRUE, panic |-> NoPanic]

\* C1's case: a key was inserted into b1, a later union changed b1, and b1
\* still tells the keys apart (it does not contain some key never inserted)
C1_Witness ==
    /\ panic = NoPanic
    /\ inserted # {}
    /\ last.op = "union"
    /\ last.ret
    /\ \E key \in Keys \ inserted : ~BloomFilter_contains(filters["b1"], key).ret

\* C6: an insert that returns sets every bit of the key and no other bit,
\* and returns true exactly when contains(key) was false just before it.
C6_InsertReturn ==
    (last.op = "insert" /\ panic = NoPanic) =>
        LET post == filters[last.self]
            idxs == BloomFilter_indices(post, last.key)
        IN  /\ last.ret = ~BloomFilter_contains(BloomBefore, last.key).ret
            /\ \A j \in DOMAIN post.bits :
                   post.bits[j] = (last.pre[j] \/ (j - 1) \in idxs)

\* C6's case: an insert returned true for a key some of whose bits were set
\* already and some were not
C6_Witness ==
    /\ last.op = "insert"
    /\ panic = NoPanic
    /\ last.ret
    /\ \E i, j \in BloomFilter_indices(BloomBefore, last.key) :
           last.pre[i + 1] /\ ~last.pre[j + 1]

\* C10: union and intersect panic exactly when the two bit stores differ in
\* length, and then leave self as it was (nothing is truncated or wrapped);
\* on equal lengths they do not fail.
C10_LengthMismatchPanics ==
    last.op \in {"union", "intersect"} =>
        LET other == filters[last.other].bits IN
        /\ (Len(last.pre) # Len(other)) <=> (panic = LenMismatch)
        /\ (Len(last.pre) = Len(other)) <=> (panic = NoPanic)
        /\ panic # NoPanic => filters[last.self].bits = last.pre

\* C10's case: a union of two non-empty stores of different lengths, the
\* other one holding a set bit, has panicked
C10_Witness ==
    /\ last.op = "union"
    /\ panic = LenMismatch
    /\ Len(last.pre) >= 1
    /\ \E j \in DOMAIN filters[last.other].bits : filters[last.other].bits[j]

\* two filters of the same size, hash count and hash configuration
SameShape(a, b) ==
    /\ Len(a.bits) = Len(b.bits)
    /\ a.num_hashes = b.num_hashes
    /\ a.hash_builder = b.hash_builder

\* C11: a union of b2 into b1, the two of the same size, hash count and hash
\* configuration, leaves b2 as it was, and every key that b1 or b2 contained
\* before the call is contained in b1 after it.
C11_UnionSemantics ==
    [][(/\ last'.op = "union"
        /\ panic' = NoPanic
        /\ SameShape(filters["b1"], filters["b2"])) =>
           /\ filters'["b2"] = filters["b2"]
           /\ \A z \in Keys :
                  (\/ BloomFilter_contains(filters["b1"], z).ret
                   \/ BloomFilter_contains(filters["b2"], z).ret)
                      => BloomFilter_contains(filters'["b1"], z).ret]_vars

\* C11's case: a union has brought into b1 a key that only b2 contained,
\* next to a key inserted into b1, and b1 still does not contain every key
C11_Witness ==
    /\ last.op = "union"
    /\ panic = NoPanic
    /\ SameShape(filters["b1"], filters["b2"])
    /\ inserted # {}
    /\ \E z \in Keys :
           /\ ~BloomFilter_contains(BloomBefore, z).ret
           /\ BloomFilter_contains(filters["b2"], z).ret
           /\ BloomFilter_contains(filters["b1"], z).ret
    /\ Len(filters["b1"].bits) >= 2

\* C12: after an intersect of b2 into b1, the two of the same size, hash
\* count and hash configuration, b1 contains a key exactly when both b1 and
\* b2 contained it before the call.
C12_IntersectSemantics ==
    [][(/\ last'.op = "intersect"
        /\ panic' = NoPanic
        /\ SameShape(filters["b1"], filters["b2"])) =>
           \A z \in Keys :
               BloomFilter_contains(filters'["b1"], z).ret
                   <=> (/\ BloomFilter_contains(filters["b1"], z).ret
                        /\ BloomFilter_contains(filters["b2"], z).ret)]_vars

\* C12's case: an intersect has kept in b1 a key that both filters contained
\* and dropped from b1 a key that b2 did not contain
C12_Witness ==
    /\ last.op = "intersect"
    /\ panic = NoPanic
    /\ SameShape(filters["b1"], filters["b2"])
    /\ filters["b1"].num_hashes >= 1
    /\ \E x, y \in Keys :
           /\ BloomFilter_contains(BloomBefore, x).ret
           /\ BloomFilter_contains(filters["b2"], x).ret
           /\ BloomFilter_contains(filters["b1"], x).ret
           /\ BloomFilter_contains(BloomBefore, y).ret
           /\ ~BloomFilter_contains(filters["b2"], y).ret
           /\ ~BloomFilter_contains(filters["b1"], y).ret

(***************************************************************************)
(* Properties of combinable_with, checked under SpecCombinable.             *)
(***************************************************************************)
\* C13: the filter built by combinable_with(&b1) has b1's number of bits,
\* number of hashes and hash configuration and starts with every bit unset;
\* whatever is inserted into or cleared from either filter, no union or
\* intersect of the two panics on the lengths; and after b2.union(&b1)
\* every key inserted into b1 is contained in b2.
C13_CombinableWith ==
    /\ SameShape(filters["b1"], filters["b2"])
    /\ last.op = "new" => \A j \in DOMAIN filters["b2"].bits : ~filters["b2"].bits[j]
    /\ panic # LenMismatch
    /\ (last.op = "union" /\ last.self = "b2" /\ panic = NoPanic) =>
           \A key \in inserted :
               BloomFilter_contains(filters["b2"], key) = [ret |-> TRUE, panic |-> NoPanic]

\* C13's case: b2 was built from a b1 that held a key; the key of b1 was not
\* in b2 before b2.union(&b1), and is after it
C13_Witness ==
    /\ last.op = "union"
    /\ last.self = "b2"
    /\ panic = NoPanic
    /\ Len(last.pre) >= 2
    /\ \E key \in inserted :
           /\ ~BloomFilter_contains([filters["b2"] EXCEPT !.bits = last.pre], key).ret
           /\ BloomFilter_contains(filters["b2"], key).ret

\* C22: a union or an intersect that returns, returns true if and only if
\* the bits of self after the call differ from the bits before it; with
\* another filter that holds the same bits as self it returns false and
\* changes nothing; and it leaves the other filter as it was.
C22_ReturnsWhetherChanged ==
    [][(last'.op \in {"union", "intersect"} /\ panic' = NoPanic) =>
           /\ last'.ret <=> (filters'[last'.self].bits # filters[last'.self].bits)
           /\ filters[last'.other].bits = filters[last'.self].bits =>
                  (~last'.ret /\ filters'[last'.self] = filters[last'.self])
           /\ filters'[last'.other] = filters[last'.other]]_vars

\* C22's case: a union of two filters that hold the same bits, some set and
\* some not, has returned false
C22_Witness ==
    /\ last.op = "union"
    /\ panic = NoPanic
    /\ ~last.ret
    /\ filters[last.other].bits = filters[last.self].bits
    /\ \E j, k \in DOMAIN last.pre : last.pre[j] /\ ~last.pre[k]

(***************************************************************************)
(* Properties of HashIter, checked under SpecHashing.                       *)
(***************************************************************************)
\* Arithmetic modulo 2^64 on the sixteen hexadecimal digits of a number, the
\* least significant first: what the values of the index sequence are
\* compared to.
Digits == 1..16

\* the hexadecimal digits of a u64
ToDigits(a) ==
    [k \in Digits |-> IF k % 2 = 1 THEN a[(k + 1) \div 2] % 16
                                   ELSE a[k \div 2] \div 16]

\* the hexadecimal digits of n, for 0 <= n < 2^28
NatDigits(n) ==
    LET weight == <<1, 16, 256, 4096, 65536, 1048576, 16777216>>
    IN  [k \in Digits |-> IF k <= Len(weight) THEN (n \div weight[k]) % 16 ELSE 0]

RECURSIVE SumCarry(_, _, _)
\* the carry into digit k of x + y
SumCarry(x, y, k) ==
    IF k = 1 THEN 0 ELSE (x[k - 1] + y[k - 1] + SumCarry(x, y, k - 1)) \div 16

\* x + y modulo 2^64: the carry out of the last digit is dropped
AddMod2_64(x, y) == [k \in Digits |-> (x[k] + y[k] + SumCarry(x, y, k)) % 16]

RECURSIVE Column(_, _, _, _)
\* the sum of x[n] * y[k + 1 - n] over n from 1 to upto
Column(x, y, k, upto) ==
    IF upto = 0 THEN 0 ELSE x[upto] * y[k + 1 - upto] + Column(x, y, k, upto - 1)

RECURSIVE ProductCarry(_, _, _)
\* the carry into digit k of x * y
ProductCarry(x, y, k) ==
    IF k = 1 THEN 0
    ELSE (Column(x, y, k - 1, k - 1) + ProductCarry(x, y, k - 1)) \div 16

\* x * y modulo 2^64: the digits past the last are dropped
MulMod2_64(x, y) ==
    [k \in Digits |-> (Column(x, y, k, k) + ProductCarry(x, y, k)) % 16]

\* the i-th raw value of the index sequence of fp as C21 states it
RawValue(fp, i) ==
    IF i = 0 THEN ToDigits(fp.h1)
    ELSE IF i = 1 THEN ToDigits(fp.h2)
    ELSE MulMod2_64(AddMod2_64(ToDigits(fp.h1), NatDigits(i)), ToDigits(fp.h2))

\* RawValue, evaluated once per fingerprint and position
RawValueTable == [fp \in Fingerprints |-> [i \in 0..MaxHashes |-> RawValue(fp, i)]]

RECURSIVE Collected(_, _)
\* the first n values of a HashIter
Collected(iter, n) ==
    IF n = 0 THEN <<>>
    ELSE LET r == next(iter) IN
         IF r.some THEN <<r.item>> \o Collected(r.iter, n - 1) ELSE <<>>

\* C21: the i-th value a HashIter for fingerprint (h1, h2) yields, counted
\* from 0, is h1 for i = 0, h2 for i = 1 and ((h1 + i) mod 2^64 * h2) mod 2^64
\* for i >= 2; and a second HashIter built from the same fingerprint and
\* count yields the same values.
C21_DoubleHashing ==
    IterBuilt =>
        /\ \A j \in DOMAIN stepped.yielded :
               ToDigits(stepped.yielded[j].item) = RawValueTable[stepped.iter.fp][j - 1]
        /\ Collected(HashIter_from_fingerprint(stepped.iter.fp, stepped.iter.count),
                     Len(stepped.yielded))
             = [j \in DOMAIN stepped.yielded |-> stepped.yielded[j].item]

\* C21's case: the HashIter of (2^64 - 1, 2) has yielded its third value, 2:
\* the sum h1 + 2 has wrapped to 1
C21_Witness ==
    /\ IterBuilt
    /\ stepped.iter.fp = BloomFingerprint_new(U64_MAX, U64(2))
    /\ Len(stepped.yielded) = 3
    /\ stepped.yielded[3].item = U64(2)

\* C20: a HashIter built for k hashes yields exactly k values and then
\* reports exhaustion on every further request; each value modulo the
\* length of a store is an index into the store, so that insert and
\* contains of a BloomFilter never panic with "Hash mod failed".
C20_HashIterYieldsCount ==
    /\ [](IterBuilt =>
            /\ Len(stepped.yielded) <= stepped.iter.count
            /\ stepped.iter.i = Len(stepped.yielded)
            /\ stepped.nones > 0 => Len(stepped.yielded) = stepped.iter.count
            /\ \A j \in DOMAIN stepped.yielded :
                   /\ stepped.yielded[j].idx >= 0
                   /\ stepped.yielded[j].idx < stepped.modulus
                   /\ BitVec_get(BitVec_from_elem(stepped.modulus, FALSE),
                                 stepped.yielded[j].idx).some)
    /\ [](panic \notin {HashModFailed, HashModFailedInsert})
    /\ [][/\ stepped.nones > 0 =>
                /\ stepped'.yielded = stepped.yielded
                /\ stepped'.nones = stepped.nones + 1
          /\ (IterBuilt /\ Len(stepped.yielded) < stepped.iter.count) =>
                /\ Len(stepped'.yielded) = Len(stepped.yielded) + 1
                /\ stepped'.nones = 0]_vars

\* C20's case: a HashIter for three or more hashes has yielded them all, the
\* double hashes among them, and has twice reported exhaustion
C20_Witness ==
    /\ IterBuilt
    /\ stepped.iter.count >= 3
    /\ Len(stepped.yielded) = stepped.iter.count
    /\ stepped.nones >= 2
    /\ stepped.modulus >= 2
    /\ \E j \in DOMAIN stepped.yielded : stepped.yielded[j].idx > 0

(***************************************************************************)
(* Properties of the constructors, checked under SpecConstructors.          *)
(***************************************************************************)
\* the bit counts the sizing math is tried on: small ones, and ones around
\* the ceiling of 200 hashes for one item
SizingBits == (0..MaxBits) \cup {288, 289, 300}

\* C18 as claimed: every BloomFilter has at least one bit and between 1 and
\* 200 hashes, however it was constructed and whatever was called on it.
C18_ShapeInvariant ==
    \A f \in Names :
        /\ Len(filters[f].bits) >= 1
        /\ filters[f].num_hashes >= 1
        /\ filters[f].num_hashes <= 200

\* C18 as amended: optimal_num_hashes is between 2 and 200, so a filter
\* built by with_rate has between 2 and 200 hashes, and needed_bits bits,
\* which is 0 for 0 expected items; a filter built by combinable_with has
\* the bits and hashes of the other; and no operation changes the number
\* of bits or of hashes of a filter.
C18_ShapeKept ==
    /\ [](\A num_bits \in SizingBits, num_items \in 0..MaxItems :
             /\ optimal_num_hashes(num_bits, num_items) >= 2
             /\ optimal_num_hashes(num_bits, num_items) <= 200)
    /\ [](\A rate \in FalsePosRates, expected_num_items \in 0..MaxItems :
             LET f == BloomFilter_with_rate(rate, expected_num_items, 1) IN
             /\ f.num_hashes >= 2
             /\ f.num_hashes <= 200
             /\ Len(f.bits) = needed_bits(rate, expected_num_items)
             /\ expected_num_items = 0 => Len(f.bits) = 0)
    /\ [](SameShape(filters["b1"], filters["b2"]))
    /\ [][\A f \in Names :
              /\ Len(filters'[f].bits) = Len(filters[f].bits)
              /\ filters'[f].num_hashes = filters[f].num_hashes]_vars

\* C18's case: a filter with more than one bit and with hashes has been
\* filled and then intersected with the other, which changed it
C18_Witness ==
    /\ last.op = "intersect"
    /\ last.ret
    /\ panic = NoPanic
    /\ Len(filters[last.self].bits) >= 2
    /\ filters[last.self].num_hashes >= 2
    /\ \E j \in DOMAIN filters[last.self].bits : filters[last.self].bits[j]

(***************************************************************************)
(* Properties of the CountingBloomFilter, checked under SpecCounting.       *)
(***************************************************************************)
\* cbf as it was before the last call
Before == [cbf EXCEPT !.counters.vals = last.pre]

\* the slots of item in a CountingBloomFilter with at least one entry
indices(self, item) ==
    Indices(HashIter_from(item, self.num_hashes, self.hash_builder), self.num_entries)

\* C4 as claimed: insert returns true exactly when the minimum of the key's
\* counters before the increments was 0.
C4_TrueIffMinWasZero ==
    (last.op = "insert" /\ panic = NoPanic) =>
        (last.ret <=> estimate_count(Before, last.key).min = 0)

\* C4 as amended: insert returns true exactly when the minimum of the key's
\* counters before the increments was greater than 0 (u32::MAX when the
\* filter has no hashes), and false exactly when it was 0.
C4_TrueIffMinWasPositive ==
    (last.op = "insert" /\ panic = NoPanic) =>
        (last.ret <=> u32_lt(0, estimate_count(Before, last.key).min))

\* C4's case: an insert returned true for a key whose counters were not all
\* equal, the smallest being at least 1
C4_Witness ==
    /\ last.op = "insert"
    /\ panic = NoPanic
    /\ last.ret
    /\ \E i, j \in indices(Before, last.key) :
           /\ last.pre[i + 1] = estimate_count(Before, last.key).min
           /\ last.pre[i + 1] >= 1
           /\ last.pre[j + 1] > last.pre[i + 1]

\* C5 as claimed: insert returns true exactly when contains(item) held just
\* before the call, and the first insert into an empty filter returns false.
C5_TrueIffContained ==
    (last.op = "insert" /\ panic = NoPanic) =>
        /\ last.ret <=> contains(Before, last.key).ret
        /\ (\A j \in DOMAIN last.pre : last.pre[j] = 0) => ~last.ret

\* C5 as amended: insert returns true exactly when contains(item) held just
\* before the call, and the first insert into an empty filter that has at
\* least one hash returns false.
C5_TrueIffContainedWithHashes ==
    (last.op = "insert" /\ panic = NoPanic) =>
        /\ last.ret <=> contains(Before, last.key).ret
        /\ ((\A j \in DOMAIN last.pre : last.pre[j] = 0) /\ cbf.num_hashes >= 1)
               => ~last.ret

\* C5's case: an insert into an empty filter with two entries and two hashes
\* has returned false
C5_Witness ==
    /\ last.op = "insert"
    /\ panic = NoPanic
    /\ ~last.ret
    /\ cbf.num_hashes >= 2
    /\ Len(last.pre) >= 2
    /\ \A j \in DOMAIN last.pre : last.pre[j] = 0

\* C7: every counter is within 0 .. 2^bits_per_entry - 1 in every state; an
\* insert or insert_get_count lowers no counter (nothing wraps), and with at
\* least one hash it raises the key's estimate by at least 1 up to the
\* maximum, where the estimate stays.
C7_CountersInRange ==
    LET max == ValueVec_max_value(cbf.counters) IN
    /\ \A j \in DOMAIN cbf.counters.vals : cbf.counters.vals[j] \in 0..max
    /\ (last.op \in {"insert", "insert_get_count"} /\ panic = NoPanic) =>
           /\ \A j \in DOMAIN last.pre : cbf.counters.vals[j] >= last.pre[j]
           /\ cbf.num_hashes >= 1 =>
                  LET e0 == estimate_count(Before, last.key).min
                      e1 == estimate_count(cbf, last.key).min
                  IN  /\ e1 >= (IF e0 < max THEN e0 + 1 ELSE max)
                      /\ e1 <= max

\* C7's case: a key whose estimate was at a maximum of 3 or more was
\* inserted once more
C7_Witness ==
    /\ last.op = "insert"
    /\ panic = NoPanic
    /\ cbf.num_hashes >= 1
    /\ ValueVec_max_value(cbf.counters) >= 3
    /\ estimate_count(Before, last.key).min = ValueVec_max_value(cbf.counters)
    /\ estimate_count(cbf, last.key).min = ValueVec_max_value(cbf.counters)

\* C8: a remove of a key that contains does not report returns 0 and leaves
\* every counter as it was.
C8_RemoveAbsent ==
    (/\ last.op = "remove"
     /\ contains(Before, last.key) = [ret |-> FALSE, panic |-> NoPanic]) =>
        /\ panic = NoPanic
        /\ last.count = 0
        /\ cbf.counters.vals = last.pre

\* C8's case: remove was called for a key with one counter at zero and
\* another above zero
C8_Witness ==
    /\ last.op = "remove"
    /\ panic = NoPanic
    /\ last.count = 0
    /\ \E i, j \in indices(Before, last.key) :
           last.pre[i + 1] = 0 /\ last.pre[j + 1] > 0

\* C9 as claimed, for filters with at least one hash: a remove of a key that
\* contains reports lowers each of the key's counters by 1, leaves the other
\* counters alone and returns what estimate_count returned before the call.
C9_RemovePresent ==
    (/\ last.op = "remove"
     /\ cbf.num_hashes >= 1
     /\ contains(Before, last.key) = [ret |-> TRUE, panic |-> NoPanic]) =>
        /\ panic = NoPanic
        /\ last.count = estimate_count(Before, last.key).min
        /\ \A j \in DOMAIN last.pre :
               cbf.counters.vals[j] =
                   last.pre[j] - (IF (j - 1) \in indices(Before, last.key) THEN 1 ELSE 0)

\* C15: insert_get_count(key) leaves the counters (and panics) exactly as
\* insert(key) would have, and returns what estimate_count(key) would have
\* returned just before the call: the minimum of the key's counters before
\* the increments.
C15_InsertGetCount ==
    last.op = "insert_get_count" =>
        LET i == insert(Before, last.key)
            e == estimate_count(Before, last.key)
        IN  /\ cbf = i.self
            /\ panic = i.panic
            /\ panic = NoPanic =>
                   /\ e.panic = NoPanic
                   /\ last.count = e.min

\* C15's case: insert_get_count returned 1 or more for a key one of whose
\* counters was at the maximum and another below it
C15_Witness ==
    /\ last.op = "insert_get_count"
    /\ panic = NoPanic
    /\ last.count >= 1
    /\ last.count # U32_MAX
    /\ \E i, j \in indices(Before, last.key) :
           /\ last.pre[i + 1] = ValueVec_max_value(cbf.counters)
           /\ last.pre[j + 1] < ValueVec_max_value(cbf.counters)
           /\ cbf.counters.vals[j + 1] = last.pre[j + 1] + 1

RECURSIVE insert_skips_increment(_, _)
\* whether some visit of insert_hash_iter's loop finds its counter at the
\* maximum and so does not increment it
insert_skips_increment(self, h_iter) ==
    LET n == next(h_iter) IN
    IF ~n.some \/ self.num_entries = 0 THEN FALSE
    ELSE LET idx == rem(n.item, self.num_entries)
             cur == ValueVec_get(self.counters, idx)
         IN  \/ ~(cur < ValueVec_max_value(self.counters))
             \/ insert_skips_increment(insert_increment(self, idx, cur), n.iter)

\* whether every increment that insert(item) attempts on self takes effect
increments_take_effect(self, item) ==
    ~insert_skips_increment(self,
         HashIter_from(item, self.num_hashes, self.hash_builder))

\* C23: in every state of the filter and for every key, an insert of the key
\* that returns and all of whose increments take effect, repeated visits to
\* a slot included, followed by a remove of the key leaves every counter at
\* its value before the insert, and the remove returns; so it is after the
\* inserts the program has made, too.
C23_InsertRemoveRoundTrip ==
    /\ panic = NoPanic =>
           \A x \in Keys :
               LET i == insert(cbf, x) IN
               (i.panic = NoPanic /\ increments_take_effect(cbf, x)) =>
                   LET r == remove(i.self, x)
                   IN  r.panic = NoPanic /\ r.self = cbf
    /\ (/\ last.op = "insert"
        /\ panic = NoPanic
        /\ increments_take_effect(Before, last.key)) =>
           LET r == remove(cbf, last.key)
           IN  r.panic = NoPanic /\ r.self = Before

\* C23's case: an insert has raised, every time it visited them, the counters
\* of a key that has more hashes than slots, one of them above 0 before, and
\* the remove of the key lowers what the insert raised
C23_Witness ==
    /\ last.op = "insert"
    /\ panic = NoPanic
    /\ increments_take_effect(Before, last.key)
    /\ cbf.num_hashes >= 2
    /\ Cardinality(indices(cbf, last.key)) < cbf.num_hashes
    /\ \E j \in DOMAIN last.pre : last.pre[j] > 0
    /\ remove(cbf, last.key).self = Before
    /\ Before # cbf

\* C19 as claimed: remove never reaches its internal assertion, the panic
\* "Contains returned true but a counter is 0".
C19_RemoveNeverAsserts == panic # CounterIsZero

(***************************************************************************)
(* Properties of clear, checked under SpecClear.                            *)
(***************************************************************************)
\* what clear does to a BloomFilter, but for what contains returns
BloomCleared ==
    /\ \A j \in DOMAIN filters'["b1"].bits : ~filters'["b1"].bits[j]
    /\ Len(filters'["b1"].bits) = Len(filters["b1"].bits)
    /\ filters'["b1"].num_hashes = filters["b1"].num_hashes

\* what clear does to a CountingBloomFilter, but for what contains and
\* estimate_count return
CountingCleared ==
    /\ \A j \in DOMAIN cbf'.counters.vals : cbf'.counters.vals[j] = 0
    /\ Len(cbf'.counters.vals) = Len(cbf.counters.vals)

\* C14 as claimed: after BloomFilter.clear every bit is unset, the number of
\* bits and of hashes is as before and, with at least one hash, contains
\* returns false for every key; after CountingBloomFilter.clear every counter
\* is 0 and, for every key, estimate_count returns 0 and contains false.
C14_ClearEmpties ==
    [][/\ (last'.op = "clear" /\ last'.self = "b1") =>
              /\ BloomCleared
              /\ filters["b1"].num_hashes >= 1 =>
                     \A x \in Keys : BloomFilter_contains(filters'["b1"], x)
                                          = [ret |-> FALSE, panic |-> NoPanic]
       /\ (last'.op = "clear" /\ last'.self = "cbf") =>
              /\ CountingCleared
              /\ \A x \in Keys :
                     /\ estimate_count(cbf', x) = [min |-> 0, panic |-> NoPanic]
                     /\ contains(cbf', x) = [ret |-> FALSE, panic |-> NoPanic]]_vars

\* C14 as amended: the same, where contains and estimate_count are called on
\* a filter with at least one hash and at least one bit or entry.
C14_ClearEmptiesWithHashes ==
    [][/\ (last'.op = "clear" /\ last'.self = "b1") =>
              /\ BloomCleared
              /\ (filters["b1"].num_hashes >= 1 /\ Len(filters["b1"].bits) >= 1) =>
                     \A x \in Keys : BloomFilter_contains(filters'["b1"], x)
                                          = [ret |-> FALSE, panic |-> NoPanic]
       /\ (last'.op = "clear" /\ last'.self = "cbf") =>
              /\ CountingCleared
              /\ (cbf.num_hashes >= 1 /\ cbf.num_entries >= 1) =>
                     \A x \in Keys :
                         /\ estimate_count(cbf', x) = [min |-> 0, panic |-> NoPanic]
                         /\ contains(cbf', x) = [ret |-> FALSE, panic |-> NoPanic]]_vars

\* C14's case: a CountingBloomFilter that contained a key was cleared
C14_Witness ==
    /\ last.op = "clear"
    /\ last.self = "cbf"
    /\ cbf.num_hashes >= 1
    /\ \E x \in Keys :
           /\ contains(Before, x).ret
           /\ estimate_count(Before, x).min >= 2
           /\ ~contains(cbf, x).ret

(***************************************************************************)
(* Properties of two inserts in a row, checked under SpecClear.             *)
(***************************************************************************)
\* b.insert(&x); b.insert(&y) on a BloomFilter: [bits, ret, panic], ret what
\* the second insert returns; a panic of the first insert ends the program
BloomFilter_insert_insert(self, x, y) ==
    LET first == BloomFilter_insert(self, x) IN
    IF first.panic # NoPanic THEN first
    ELSE BloomFilter_insert([self EXCEPT !.bits = first.bits], y)

\* cbf.insert(&x); cbf.insert(&y) on a CountingBloomFilter: [self, ret, panic]
insert_insert(self, x, y) ==
    LET first == insert(self, x) IN
    IF first.panic # NoPanic THEN first ELSE insert(first.self, y)

\* C24: in every state and for every two keys x and y, insert(x) then
\* insert(y) leaves the bits of a BloomFilter, and the counters of a
\* CountingBloomFilter, as insert(y) then insert(x) does, and panics if and
\* only if the other order does (the two orders are compared for x < y:
\* for x = y they are one order); an insert into a BloomFilter of the key
\* that was just inserted returns false and changes no bit, in every state
\* and in the steps of the program.
C24_InsertsCommute ==
    /\ []((panic = NoPanic /\ BuiltBloom) =>
            /\ \A x, y \in Keys :
                   x < y =>
                       LET bxy == BloomFilter_insert_insert(filters["b1"], x, y)
                           byx == BloomFilter_insert_insert(filters["b1"], y, x)
                       IN  bxy.bits = byx.bits /\ bxy.panic = byx.panic
            /\ \A x \in Keys :
                   LET bx  == BloomFilter_insert(filters["b1"], x)
                       bxx == BloomFilter_insert_insert(filters["b1"], x, x)
                   IN  bx.panic = NoPanic =>
                           /\ bxx.panic = NoPanic
                           /\ ~bxx.ret
                           /\ bxx.bits = bx.bits)
    /\ []((panic = NoPanic /\ ~BuiltBloom) =>
            \A x, y \in Keys :
                x < y =>
                    LET cxy == insert_insert(cbf, x, y)
                        cyx == insert_insert(cbf, y, x)
                    IN  cxy.self = cyx.self /\ cxy.panic = cyx.panic)
    /\ [][(/\ last.op = "insert" /\ last.self = "b1"
           /\ last'.op = "insert" /\ last'.self = "b1"
           /\ last'.key = last.key
           /\ panic' = NoPanic) =>
              (~last'.ret /\ filters' = filters)]_vars

\* C24's case: two keys that share a counter and have one each of their own
\* are inserted one after the other into a CountingBloomFilter in which the
\* shared counter is one below its maximum, so that the second insert,
\* whichever it is, finds it saturated
C24_Witness ==
    /\ ~BuiltBloom
    /\ last.op = "insert"
    /\ panic = NoPanic
    /\ \E y \in Keys \ {last.key} :
           /\ insert(cbf, y).panic = NoPanic
           /\ \E j \in indices(cbf, y) \cap indices(cbf, last.key) :
                  /\ last.pre[j + 1] = ValueVec_max_value(cbf.counters) - 1
                  /\ cbf.counters.vals[j + 1] = ValueVec_max_value(cbf.counters)
           /\ indices(cbf, y) # indices(cbf, last.key)
           /\ insert(cbf, y).self # cbf
           /\ insert(cbf, y).self = insert_insert(Before, y, last.key).self

(***************************************************************************)
(* Properties of the fingerprint fast path, checked under SpecFingerprint.  *)
(***************************************************************************)
\* C17: in every state of the filter and for every key, with fp the digest
\* of the key under the filter's hasher, each of contains, insert,
\* insert_get_count, estimate_count and remove gives the same result,
\* counters and panic through its _fingerprint(fp) form as through its
\* _slice(key) form; and the fingerprint calls the program made left the
\* filter as the slice calls would have.
C17_FingerprintReuse ==
    /\ panic = NoPanic =>
           \A key \in Keys :
               LET fp == hash_one_128(cbf.hash_builder, key) IN
               /\ contains_fingerprint(cbf, fp) = contains_slice(cbf, key)
               /\ insert_fingerprint(cbf, fp) = insert_slice(cbf, key)
               /\ insert_get_count_fingerprint(cbf, fp) = insert_get_count_slice(cbf, key)
               /\ estimate_count_fingerprint(cbf, fp) = estimate_count_slice(cbf, key)
               /\ remove_fingerprint(cbf, fp) = remove_slice(cbf, key)
    /\ last.op = "insert_fingerprint" =>
           LET r == insert_slice(Before, last.key)
           IN  cbf = r.self /\ last.ret = r.ret /\ panic = r.panic
    /\ last.op = "remove_fingerprint" =>
           LET r == remove_slice(Before, last.key)
           IN  cbf = r.self /\ last.count = r.min /\ panic = r.panic

\* C17's case: remove_fingerprint has returned 1 or more for a key with two
\* slots, leaving the key in the filter
C17_Witness ==
    /\ last.op = "remove_fingerprint"
    /\ panic = NoPanic
    /\ last.count >= 1
    /\ Cardinality(indices(cbf, last.key)) >= 2
    /\ contains_fingerprint(cbf, hash_one_128(cbf.hash_builder, last.key)).ret

(***************************************************************************)
(* Properties of estimate_count, checked under SpecInserts.                 *)
(***************************************************************************)
\* C16: after inserts and insert_get_counts only, estimate_count(x), where
\* it returns, is at least the number of times x was inserted or, if that is
\* less, the maximum of a counter (x is TrackedKey, whose digest is each of
\* Fingerprints under one secret or another); and no step but an insert or
\* an insert_get_count changes a counter, so estimate_count changes none.
C16_NeverUnderestimates ==
    /\ [](LET e == estimate_count(cbf, TrackedKey)
              max == ValueVec_max_value(cbf.counters)
          IN  (panic = NoPanic /\ e.panic = NoPanic) =>
                  ~u32_lt(e.min, IF hist.ins < max THEN hist.ins ELSE max))
    /\ [][cbf' # cbf => /\ last'.op \in {"insert", "insert_get_count"}
                        /\ last'.pre = cbf.counters.vals]_vars

\* C16's case: the estimate for a key inserted once, with as many slots as
\* hashes, is above 1 and below the maximum, another key having been inserted
C16_Witness ==
    /\ panic = NoPanic
    /\ hist.ins = 1
    /\ hist.otherIns
    /\ cbf.num_hashes >= 2
    /\ Cardinality(indices(cbf, TrackedKey)) = cbf.num_hashes
    /\ estimate_count(cbf, TrackedKey).min > 1
    /\ estimate_count(cbf, TrackedKey).min < ValueVec_max_value(cbf.counters)

(***************************************************************************)
(* Properties of a CountingBloomFilter's history, checked under             *)
(* SpecCountingHist.                                                        *)
(***************************************************************************)
\* C2 as claimed, on the runs in which no key other than TrackedKey was ever
\* removed: a key inserted more often than it was removed is reported by
\* contains.
C2_NoFalseNegatives ==
    (panic = NoPanic /\ ~hist.otherRem /\ hist.ins > hist.rem) =>
        contains(cbf, TrackedKey).ret

\* C3 as claimed, for filters with at least one entry and one hash: after n
\* inserts of x into an empty filter whose counters reach n, estimate_count
\* is n; the removes that follow return n, n-1, .., 1; then contains is false
\* and a further remove returns 0.
C3_RoundTrip ==
    LET x == TrackedKey
        n == hist.ins
    IN  (/\ cbf.num_entries >= 1
         /\ cbf.num_hashes >= 1
         /\ ~hist.otherIns
         /\ ~hist.otherRem
         /\ ~hist.insAfterRem
         /\ n >= 1
         /\ n <= ValueVec_max_value(cbf.counters)) =>
            /\ panic = NoPanic
            /\ hist.rem = 0 => estimate_count(cbf, x).min = n
            /\ (1 <= hist.rem /\ hist.rem <= n) => last.count = n - hist.rem + 1
            /\ hist.rem >= n => ~contains(cbf, x).ret
            /\ hist.rem > n => last.count = 0

====
